---- MODULE Spec2Model ----
(***************************************************************************)
(* Model of file_conversion.py: a directory-scanning batch converter that  *)
(* registers itself as a recurring OS task (schtasks on Windows, crontab   *)
(* on Linux).  One invocation of main() is modelled as the phases          *)
(*   Launch (parse_arguments, setup_logging)                               *)
(*   -> batch (check_files + convert_file loop, or the manual branch)      *)
(*   -> scheduling dispatch on platform.system()                           *)
(*   -> Finish ("Script finished.", exit 0).                               *)
(* The file system, the Windows task store and the user's crontab persist  *)
(* across invocations; everything else is per invocation.                  *)
(* Paths use "/" as separator on every platform.                           *)
(***************************************************************************)
EXTENDS Integers, Sequences, FiniteSets, TLC

VARIABLES
    platform,     \* platform.system() of the machine
    fs,           \* set of paths of the files that exist
    winTasks,     \* Windows Task Scheduler store: set of task records
    crontab,      \* the user's crontab: sequence of lines (token sequences)
    pc,           \* position of the current invocation of main()
    trigger,      \* "manual" or "os": who launched the current invocation
    argv,         \* command-line tokens of the current invocation
    args,         \* namespace returned by parse_arguments
    log,          \* records written to this invocation's log file
    exitCode,     \* process exit status (-1 while running)
    scanned,      \* TRUE once check_files returned in this invocation
    files,        \* list returned by check_files
    calls,        \* paths convert_file was called on, in call order
    produced,     \* paths written by pdf.output, in write order
    dispatched,   \* TRUE once the platform dispatch (lines 113-119) ran
    issued,       \* number of subprocess.run calls of this invocation
    schedOutcome  \* outcome of the scheduling command ("none" if none ran)

batchVars == <<scanned, files, calls, produced>>
schedVars == <<dispatched, issued, schedOutcome>>
vars == <<platform, fs, winTasks, crontab, pc, trigger, argv, args, log,
          exitCode, scanned, files, calls, produced, dispatched, issued,
          schedOutcome>>

\* Longest crontab the model lets grow before no further invocation starts.
MaxCron == 2

----------------------------------------------------------------------------
(* Strings.  TLC cannot index into a string, so every string whose        *)
(* characters the program inspects (endswith, splitext) is listed here     *)
(* with its characters.                                                    *)

Strings ==
    {"", ".txt", ".docx", ".pdf", "a.txt", "a.docx", "a.pdf",
     "/d/a.txt", "/d/a.docx", "/d/.txt", "/d/a.pdf", "/d/a"}

Chars(s) ==
    CASE s = ""          -> <<>>
      [] s = ".txt"      -> <<".", "t", "x", "t">>
      [] s = ".docx"     -> <<".", "d", "o", "c", "x">>
      [] s = ".pdf"      -> <<".", "p", "d", "f">>
      [] s = "a.txt"     -> <<"a", ".", "t", "x", "t">>
      [] s = "a.docx"    -> <<"a", ".", "d", "o", "c", "x">>
      [] s = "a.pdf"     -> <<"a", ".", "p", "d", "f">>
      [] s = "/d/a.txt"  -> <<"/", "d", "/", "a", ".", "t", "x", "t">>
      [] s = "/d/a.docx" -> <<"/", "d", "/", "a", ".", "d", "o", "c", "x">>
      [] s = "/d/.txt"   -> <<"/", "d", "/", ".", "t", "x", "t">>
      [] s = "/d/a.pdf"  -> <<"/", "d", "/", "a", ".", "p", "d", "f">>
      [] s = "/d/a"      -> <<"/", "d", "/", "a">>

Str(cs) == CHOOSE s \in Strings : Chars(s) = cs

\* str.endswith
EndsWith(name, suffix) ==
    LET n == Chars(name)
        e == Chars(suffix)
    IN  /\ Len(e) <= Len(n)
        /\ SubSeq(n, Len(n) - Len(e) + 1, Len(n)) = e

\* str.rfind, 1-based, 0 when absent
RFind(cs, c) ==
    LET hits == {i \in 1..Len(cs) : cs[i] = c}
    IN  IF hits = {} THEN 0 ELSE CHOOSE i \in hits : \A j \in hits : j <= i

\* os.path.splitext: the extension starts at the last dot of the last path
\* component, unless that component has only dots before it.
SplitExt(path) ==
    LET p == Chars(path)
        sepIndex == RFind(p, "/")
        dotIndex == RFind(p, ".")
    IN  IF /\ dotIndex > sepIndex
           /\ \E i \in (sepIndex + 1)..(dotIndex - 1) : p[i] # "."
        THEN [base |-> Str(SubSeq(p, 1, dotIndex - 1)),
              ext  |-> Str(SubSeq(p, dotIndex, Len(p)))]
        ELSE [base |-> path, ext |-> ""]

\* os.path.join(directory, file)
JoinPath(directory, file) == directory \o "/" \o file

----------------------------------------------------------------------------
(* The environment.                                                        *)

Platforms == {"Windows", "Linux", "Darwin"}
ExistingDirs == {"/d"}
Dirs == {"/d", "/m"}
Names == {"a.txt", "a.docx", ".txt", "a.pdf"}
InitListings == {{}, {"a.txt", "a.docx"}, {"a.txt", ".txt"}}
ScriptPath == "/opt/file_conversion.py"

\* os.listdir(directory): the names of the entries of the directory
ListDir(directory) == {n \in Names : JoinPath(directory, n) \in fs}

\* the orders in which os.listdir may return a set of names
Orders(S) ==
    {s \in [1..Cardinality(S) -> S] :
        \A i, j \in 1..Cardinality(S) : i # j => s[i] # s[j]}

Range(s) == {s[i] : i \in 1..Len(s)}

Entry(level, event, subject) ==
    [level |-> level, event |-> event, subject |-> subject]

----------------------------------------------------------------------------
(* parse_arguments.                                                        *)

ValueOptions == {"--dir", "--ext", "--format", "--frequency", "--unit"}
OptionStrings == ValueOptions \cup {"--scheduled"}
UnitChoices == {"minute", "hour", "day"}

\* the texts int() accepts, with their values, and str() of those values
IntTexts == {"0", "1", "5"}
IntOf(t) == CASE t = "0" -> 0 [] t = "1" -> 1 [] t = "5" -> 5
IntText(n) == CASE n = 0 -> "0" [] n = 1 -> "1" [] n = 5 -> "5"

NoArgs ==
    [ok |-> FALSE, given |-> {}, dir |-> "", ext |-> "", format |-> "",
     frequency |-> 0, unit |-> "", scheduled |-> FALSE]

\* One option at a time, left to right; a later occurrence overwrites an
\* earlier one.  ok is cleared on a missing value, a value int() rejects, a
\* unit outside the choices, or an unrecognized token.
RECURSIVE ParseFrom(_, _, _)
ParseFrom(tokens, i, ns) ==
    IF ~ns.ok \/ i > Len(tokens) THEN ns
    ELSE LET tok == tokens[i] IN
      IF tok = "--scheduled"
      THEN ParseFrom(tokens, i + 1, [ns EXCEPT !.scheduled = TRUE])
      ELSE IF tok \notin ValueOptions
      THEN [ns EXCEPT !.ok = FALSE]
      ELSE IF i + 1 > Len(tokens) \/ tokens[i + 1] \in OptionStrings
      THEN [ns EXCEPT !.ok = FALSE]
      ELSE LET v == tokens[i + 1]
               seen == [ns EXCEPT !.given = @ \cup {tok}]
           IN CASE tok = "--dir" ->
                     ParseFrom(tokens, i + 2, [seen EXCEPT !.dir = v])
                [] tok = "--ext" ->
                     ParseFrom(tokens, i + 2, [seen EXCEPT !.ext = v])
                [] tok = "--format" ->
                     ParseFrom(tokens, i + 2, [seen EXCEPT !.format = v])
                [] tok = "--frequency" ->
                     IF v \in IntTexts
                     THEN ParseFrom(tokens, i + 2,
                                    [seen EXCEPT !.frequency = IntOf(v)])
                     ELSE [ns EXCEPT !.ok = FALSE]
                [] tok = "--unit" ->
                     IF v \in UnitChoices
                     THEN ParseFrom(tokens, i + 2, [seen EXCEPT !.unit = v])
                     ELSE [ns EXCEPT !.ok = FALSE]

\* parse_arguments: every option but --scheduled is required
ParseArguments(tokens) ==
    LET ns == ParseFrom(tokens, 1, [NoArgs EXCEPT !.ok = TRUE])
    IN  [ns EXCEPT !.ok = ns.ok /\ ValueOptions \subseteq ns.given]

----------------------------------------------------------------------------
(* check_files, the converters and convert_file.                           *)

\* check_files: the entries, in listing order, whose name ends with extension
CheckFiles(listing, extension) ==
    LET Matches(n) == EndsWith(n, extension)
    IN  SelectSeq(listing, Matches)

\* what one call of convert_file did
Outcome(raised, written, entries) ==
    [raised |-> raised, written |-> written, log |-> entries]

\* txt_to_pdf without its try/except: a failure leaves the function
TxtToPdfUncaught(txt_file, pdf_file, fails) ==
    IF fails
    THEN Outcome(TRUE, <<>>, <<>>)
    ELSE Outcome(FALSE, <<pdf_file>>, <<Entry("INFO", "converted", txt_file)>>)

\* txt_to_pdf: everything runs inside try/except Exception
TxtToPdf(txt_file, pdf_file, fails) ==
    IF fails
    THEN Outcome(FALSE, <<>>, <<Entry("ERROR", "convert_error", txt_file)>>)
    ELSE Outcome(FALSE, <<pdf_file>>, <<Entry("INFO", "converted", txt_file)>>)

\* docx_to_pdf: everything runs inside try/except Exception
DocxToPdf(docx_file, pdf_file, fails) ==
    IF fails
    THEN Outcome(FALSE, <<>>, <<Entry("ERROR", "convert_error", docx_file)>>)
    ELSE Outcome(FALSE, <<pdf_file>>, <<Entry("INFO", "converted", docx_file)>>)

\* the dispatch table of convert_file
Conversions ==
    [k \in {<<".txt", ".pdf">>, <<".docx", ".pdf">>} |->
        IF k[1] = ".txt" THEN "txt_to_pdf" ELSE "docx_to_pdf"]

\* convert_file appending the target format to the whole path
ConvertFileKeepsExt(file_path, target_format, fails) ==
    LET se == SplitExt(file_path)
        key == <<se.ext, target_format>>
    IN  IF key \in DOMAIN Conversions
        THEN IF Conversions[key] = "txt_to_pdf"
             THEN TxtToPdf(file_path, file_path \o target_format, fails)
             ELSE DocxToPdf(file_path, file_path \o target_format, fails)
        ELSE Outcome(FALSE, <<>>,
                     <<Entry("WARNING", "unsupported", file_path)>>)

ConvertFile(file_path, target_format, fails) ==
    LET se == SplitExt(file_path)
        key == <<se.ext, target_format>>
    IN  IF key \in DOMAIN Conversions
        THEN IF Conversions[key] = "txt_to_pdf"
             THEN TxtToPdf(file_path, se.base \o target_format, fails)
             ELSE DocxToPdf(file_path, se.base \o target_format, fails)
        ELSE Outcome(FALSE, <<>>,
                     <<Entry("WARNING", "unsupported", file_path)>>)

\* the for loop of main: convert_file on each file in turn; an exception
\* leaving convert_file ends the loop
RECURSIVE RunBatch(_, _, _, _)
RunBatch(paths, target_format, failing, acc) ==
    IF paths = <<>> \/ acc.raised THEN acc
    ELSE LET p == Head(paths)
             r == ConvertFile(p, target_format, p \in failing)
         IN  RunBatch(Tail(paths), target_format, failing,
                      [raised   |-> r.raised,
                       calls    |-> Append(acc.calls, p),
                       produced |-> acc.produced \o r.written,
                       log      |-> acc.log \o r.log])

----------------------------------------------------------------------------
(* The Scheduler Installer.                                                *)

TaskName == "FileConversionTask"

\* the arguments both backends forward to the registered command
ForwardedArgs(directory, extension, target_format) ==
    <<"--dir", directory, "--ext", extension, "--format", target_format,
      "--scheduled">>

\* python_command of schedule_task_windows
PythonCommand(directory, extension, target_format) ==
    <<"python", ScriptPath>> \o ForwardedArgs(directory, extension, target_format)

\* schedule_unit of schedule_task_windows
ScheduleUnit(unit) ==
    CASE unit = "minute" -> "MINUTE"
      [] unit = "hour"   -> "HOURLY"
      [] unit = "day"    -> "DAILY"

\* the task schtasks /create is asked to register
WindowsTask(a) ==
    [tn |-> TaskName,
     tr |-> PythonCommand(a.dir, a.ext, a.format),
     sc |-> ScheduleUnit(a.unit),
     mo |-> a.frequency]

\* schtasks /create keeping a task of the same name
SchtasksCreateKeepsOld(tasks, task) == tasks \cup {task}

\* schtasks /create /tn name ... /f: a task of that name is replaced
SchtasksCreate(tasks, task) ==
    {t \in tasks : t.tn # task.tn} \cup {task}

\* cron_time with the hour and day forms exchanged
CronTimeSwapped(frequency, unit) ==
    IF unit = "minute" THEN <<"*/" \o IntText(frequency), "*", "*", "*", "*">>
    ELSE IF unit = "hour" THEN <<"0", "0", "*/" \o IntText(frequency), "*", "*">>
    ELSE <<"0", "*/" \o IntText(frequency), "*", "*", "*">>

\* cron_time of schedule_task_linux: the five time fields
CronTime(frequency, unit) ==
    IF unit = "minute" THEN <<"*/" \o IntText(frequency), "*", "*", "*", "*">>
    ELSE IF unit = "hour" THEN <<"0", "*/" \o IntText(frequency), "*", "*", "*">>
    ELSE <<"0", "0", "*/" \o IntText(frequency), "*", "*">>

\* cron_job of schedule_task_linux: the line echoed into the crontab
CronJob(a) ==
    CronTime(a.frequency, a.unit) \o <<"python3", ScriptPath>>
        \o ForwardedArgs(a.dir, a.ext, a.format)

\* (crontab -l; echo line) | crontab - : the old lines, then the new one
CrontabAppend(lines, line) == Append(lines, line)

\* the program arguments the OS passes when it runs a registered command
TaskArgv(task) == SubSeq(task.tr, 3, Len(task.tr))
CronArgv(line) == SubSeq(line, 8, Len(line))

\* the dispatch with the Linux backend as the else branch
BackendElseLinux(system) ==
    IF system = "Windows" THEN "windows" ELSE "linux"

\* the if/elif/else on platform.system() in main
Backend(system) ==
    IF system = "Windows" THEN "windows"
    ELSE IF system = "Linux" THEN "linux"
    ELSE "none"

----------------------------------------------------------------------------
(* The state machine.                                                      *)

Init ==
    /\ platform \in Platforms
    /\ fs \in {{JoinPath("/d", n) : n \in L} : L \in InitListings}
    /\ winTasks = {}
    /\ crontab = <<>>
    /\ pc = "idle"
    /\ trigger = "none"
    /\ argv = <<>>
    /\ args = NoArgs
    /\ log = <<>>
    /\ exitCode = -1
    /\ scanned = FALSE
    /\ files = <<>>
    /\ calls = <<>>
    /\ produced = <<>>
    /\ dispatched = FALSE
    /\ issued = 0
    /\ schedOutcome = "none"

\* main, lines 101-104: parse_arguments exits with status 2 on a command
\* line it rejects; otherwise logging is set up and "Script started." logged.
Start(tokens, who) ==
    /\ pc \in {"idle", "exited"}
    /\ Len(crontab) < MaxCron
    /\ LET ns == ParseArguments(tokens)
       IN  /\ args' = IF ns.ok THEN ns ELSE NoArgs
           /\ pc' = IF ns.ok THEN "started" ELSE "exited"
           /\ exitCode' = IF ns.ok THEN -1 ELSE 2
           /\ log' = IF ns.ok THEN <<Entry("INFO", "started", "")>> ELSE <<>>
    /\ trigger' = who
    /\ argv' = tokens
    /\ scanned' = FALSE
    /\ files' = <<>>
    /\ calls' = <<>>
    /\ produced' = <<>>
    /\ dispatched' = FALSE
    /\ issued' = 0
    /\ schedOutcome' = "none"
    /\ UNCHANGED <<platform, fs, winTasks, crontab>>

\* a user runs the program from a shell
Launch(tokens) == Start(tokens, "manual")

\* the Windows Task Scheduler runs a registered task's /tr command
TaskSchedulerTick ==
    /\ platform = "Windows"
    /\ \E t \in winTasks : Start(TaskArgv(t), "os")

\* cron runs the command of a line of the crontab
CronTick ==
    /\ platform = "Linux"
    /\ \E i \in 1..Len(crontab) : Start(CronArgv(crontab[i]), "os")

\* main, lines 110-111
ManualRun ==
    /\ pc = "started"
    /\ ~args.scheduled
    /\ log' = Append(log, Entry("INFO", "manual", ""))
    /\ pc' = "batched"
    /\ UNCHANGED <<platform, fs, winTasks, crontab, trigger, argv, args,
                   exitCode, batchVars, schedVars>>

\* main, line 107: os.listdir raises on a directory that cannot be listed;
\* nothing catches it, the interpreter prints the traceback and exits 1
ScanFails ==
    /\ pc = "started"
    /\ args.scheduled
    /\ args.dir \notin ExistingDirs
    /\ pc' = "exited"
    /\ exitCode' = 1
    /\ UNCHANGED <<platform, fs, winTasks, crontab, trigger, argv, args, log,
                   batchVars, schedVars>>

\* main, lines 106-109: scan, then convert every match.  The listing order
\* and the files whose conversion fails are the environment's choice.
ScheduledBatch ==
    /\ pc = "started"
    /\ args.scheduled
    /\ args.dir \in ExistingDirs
    /\ \E listing \in Orders(ListDir(args.dir)) :
         LET found == CheckFiles(listing, args.ext)
             paths == [i \in 1..Len(found) |-> JoinPath(args.dir, found[i])]
         IN  \E failing \in SUBSET Range(paths) :
               LET r == RunBatch(paths, args.format, failing,
                                 [raised |-> FALSE, calls |-> <<>>,
                                  produced |-> <<>>, log |-> <<>>])
               IN  /\ scanned' = TRUE
                   /\ files' = found
                   /\ calls' = r.calls
                   /\ produced' = r.produced
                   /\ fs' = fs \cup Range(r.produced)
                   /\ log' = log
                        \o (IF found = <<>>
                            THEN <<Entry("INFO", "no_files", args.dir)>>
                            ELSE <<>>)
                        \o r.log
                   /\ pc' = IF r.raised THEN "exited" ELSE "batched"
                   /\ exitCode' = IF r.raised THEN 1 ELSE exitCode
    /\ UNCHANGED <<platform, winTasks, crontab, trigger, argv, args,
                   schedVars>>

\* schedule_task_windows: check=True turns a failing schtasks into
\* CalledProcessError, which is caught and logged
ScheduleTaskWindows ==
    /\ pc = "batched"
    /\ Backend(platform) = "windows"
    /\ \E outcome \in {"ok", "fail"} :
         /\ schedOutcome' = outcome
         /\ winTasks' = IF outcome = "ok"
                        THEN SchtasksCreate(winTasks, WindowsTask(args))
                        ELSE winTasks
         /\ log' = Append(log,
                      IF outcome = "ok"
                      THEN Entry("INFO", "scheduled", "Windows")
                      ELSE Entry("ERROR", "schedule_failed", "Windows"))
    /\ dispatched' = TRUE
    /\ issued' = issued + 1
    /\ pc' = "scheduled"
    /\ UNCHANGED <<platform, fs, crontab, trigger, argv, args, exitCode,
                   batchVars>>

\* schedule_task_linux: subprocess.run without check; a pipeline that exits
\* unsuccessfully ("fail") raises nothing, so the success message is logged;
\* only an exception of subprocess.run itself ("raise") reaches the except
ScheduleTaskLinux ==
    /\ pc = "batched"
    /\ Backend(platform) = "linux"
    /\ \E outcome \in {"ok", "fail", "raise"} :
         /\ schedOutcome' = outcome
         /\ crontab' = IF outcome = "ok"
                       THEN CrontabAppend(crontab, CronJob(args))
                       ELSE crontab
         /\ log' = Append(log,
                      IF outcome = "raise"
                      THEN Entry("ERROR", "schedule_failed", "Linux")
                      ELSE Entry("INFO", "scheduled", "Linux"))
    /\ dispatched' = TRUE
    /\ issued' = issued + 1
    /\ pc' = "scheduled"
    /\ UNCHANGED <<platform, fs, winTasks, trigger, argv, args, exitCode,
                   batchVars>>

\* main, lines 118-119
UnsupportedOS ==
    /\ pc = "batched"
    /\ Backend(platform) = "none"
    /\ log' = Append(log, Entry("WARNING", "unsupported_os", ""))
    /\ dispatched' = TRUE
    /\ pc' = "scheduled"
    /\ UNCHANGED <<platform, fs, winTasks, crontab, trigger, argv, args,
                   exitCode, batchVars, issued, schedOutcome>>

\* main, line 120, and the return to the interpreter
Finish ==
    /\ pc = "scheduled"
    /\ log' = Append(log, Entry("INFO", "finished", ""))
    /\ exitCode' = 0
    /\ pc' = "exited"
    /\ UNCHANGED <<platform, fs, winTasks, crontab, trigger, argv, args,
                   batchVars, schedVars>>

----------------------------------------------------------------------------
(* Command lines.                                                          *)

ArgvOf(d, e, f, n, u, s) ==
    <<"--dir", d, "--ext", e, "--format", f, "--frequency", n, "--unit", u>>
        \o (IF s THEN <<"--scheduled">> ELSE <<>>)

\* command lines parse_arguments rejects
BadArgvs ==
    {ArgvOf("/d", ".txt", ".pdf", "abc", "minute", FALSE),
     ArgvOf("/d", ".txt", ".pdf", "5", "week", TRUE),
     <<"--dir", "/d", "--ext", ".txt", "--format", ".pdf", "--frequency", "5">>,
     <<"--dir", "/d", "--ext", ".txt", "--format", ".pdf", "--unit", "hour",
       "--frequency">>}

\* every frequency and unit run by hand on one directory and extension, and
\* two runs with the scheduled flag
SchedArgvs ==
    {ArgvOf("/d", ".txt", ".pdf", n, u, FALSE) :
        n \in IntTexts, u \in UnitChoices}
      \cup {ArgvOf(d, ".txt", ".pdf", "5", "minute", TRUE) : d \in Dirs}
      \cup BadArgvs

\* every directory and extension, on one schedule
BatchArgvs ==
    {ArgvOf(d, e, ".pdf", "5", "minute", s) :
        d \in Dirs, e \in {"", ".txt"}, s \in BOOLEAN}
      \cup BadArgvs

NextSched ==
    \/ \E tokens \in SchedArgvs : Launch(tokens)
    \/ TaskSchedulerTick
    \/ CronTick
    \/ ManualRun
    \/ ScanFails
    \/ ScheduledBatch
    \/ ScheduleTaskWindows
    \/ ScheduleTaskLinux
    \/ UnsupportedOS
    \/ Finish

NextBatch ==
    \/ \E tokens \in BatchArgvs : Launch(tokens)
    \/ TaskSchedulerTick
    \/ CronTick
    \/ ManualRun
    \/ ScanFails
    \/ ScheduledBatch
    \/ ScheduleTaskWindows
    \/ ScheduleTaskLinux
    \/ UnsupportedOS
    \/ Finish

SpecSched == Init /\ [][NextSched]_vars
SpecBatch == Init /\ [][NextBatch]_vars

----------------------------------------------------------------------------
(* Properties.                                                             *)

\* the command the invocation at hand has just registered
RegisteredArgv ==
    IF platform = "Windows"
    THEN TaskArgv(CHOOSE t \in winTasks : t.tn = TaskName)
    ELSE CronArgv(crontab[Len(crontab)])

Installed == pc = "scheduled" /\ schedOutcome = "ok"

\* C1: the command line a successful install registers parses, under
\* parse_arguments, to the directory, extension, format, frequency and unit
\* of the invocation that registered it, with the scheduled flag set; and no
\* invocation the OS launches is rejected by parse_arguments.
C1_RegisteredCommandReinvokes ==
    /\ Installed =>
         LET ns == ParseArguments(RegisteredArgv)
         IN  /\ ns.ok
             /\ ns.scheduled
             /\ ns.dir = args.dir
             /\ ns.ext = args.ext
             /\ ns.format = args.format
             /\ ns.frequency = args.frequency
             /\ ns.unit = args.unit
    /\ trigger = "os" => exitCode # 2

\* C2: an invocation that passed parse_arguments has reached the platform
\* dispatch of the scheduling step by the time it has exited.
C2_SchedulingAlwaysAttempted ==
    (pc = "exited" /\ args.ok) => dispatched

\* C3 as claimed: once an install has succeeded, the scheduler store of the
\* platform holds exactly one registration, that of the invocation at hand.
C3_ExactlyOneRegistration ==
    Installed =>
        /\ platform = "Windows" => winTasks = {WindowsTask(args)}
        /\ platform = "Linux" => crontab = <<CronJob(args)>>

\* C3 as amended: a successful Windows install leaves exactly the task of the
\* invocation at hand in the task store (replacing any earlier one), a
\* successful Linux install appends the line of the invocation at hand to
\* the crontab and keeps every earlier line, and no other step changes
\* either store.
C3_WindowsReplacesLinuxAppends ==
    [][LET installs == pc = "batched" /\ schedOutcome' = "ok"
       IN  /\ (installs /\ platform = "Windows") =>
                 /\ winTasks' = {WindowsTask(args)}
                 /\ Cardinality(winTasks') = 1
           /\ (installs /\ platform = "Linux") =>
                 /\ Len(crontab') = Len(crontab) + 1
                 /\ SubSeq(crontab', 1, Len(crontab)) = crontab
                 /\ crontab'[Len(crontab')] = CronJob(args)
           /\ ~installs => (winTasks' = winTasks /\ crontab' = crontab)]_vars

\* C3 witness: two successful installs with different schedules have run on
\* Linux, and both lines are in the crontab.
C3_Witness ==
    /\ Installed
    /\ platform = "Linux"
    /\ Len(crontab) = 2
    /\ crontab[1] # crontab[2]

\* the files of the batch at hand for which convert_file finds a converter
HasConverter(name) ==
    <<SplitExt(JoinPath(args.dir, name)).ext, args.format>>
        \in DOMAIN Conversions
Convertible == SelectSeq(files, HasConverter)
CountEvents(event) ==
    Cardinality({i \in 1..Len(log) : log[i].event = event})
N == Len(files)
K == N - Len(Convertible)
AllConvertersSucceeded == scanned /\ CountEvents("convert_error") = 0

\* C4 as claimed: a batch whose converters all succeed leaves exactly N-K
\* output files, logs K unsupported-conversion events and is not aborted.
C4_NMinusKOutputFiles ==
    AllConvertersSucceeded =>
        /\ Cardinality(Range(produced)) = N - K
        /\ CountEvents("unsupported") = K
        /\ exitCode # 1

\* C4 as amended: a batch whose converters all succeed performs exactly N-K
\* conversions, the i-th writing the path base name + target extension of
\* the i-th convertible file, logs exactly K unsupported-conversion events
\* and is not aborted; the written files exist afterwards, and there are as
\* many of them as there are distinct base names among the convertible files.
C4_OneWritePerConvertibleFile ==
    AllConvertersSucceeded =>
        /\ Len(produced) = N - K
        /\ \A i \in 1..Len(produced) :
              produced[i] =
                SplitExt(JoinPath(args.dir, Convertible[i])).base \o args.format
        /\ Range(produced) \subseteq fs
        /\ Cardinality(Range(produced)) =
              Cardinality({SplitExt(JoinPath(args.dir, Convertible[i])).base :
                              i \in 1..Len(Convertible)})
        /\ CountEvents("unsupported") = K
        /\ CountEvents("converted") = N - K
        /\ exitCode # 1
        /\ pc \in {"batched", "scheduled", "exited"}

\* C4 witness: a finished batch with matches of both kinds.
C4_Witness ==
    /\ AllConvertersSucceeded
    /\ N >= 2
    /\ K >= 1
    /\ Len(produced) >= 1

\* C5: once the scan has returned, convert_file has been called exactly once
\* on each matched file, in the scanner's order, whichever conversions
\* failed; each call left exactly one log record, about that file, and the
\* batch did not abort.
C5_EveryMatchConvertedOnceInOrder ==
    scanned =>
        /\ calls = [i \in 1..Len(files) |-> JoinPath(args.dir, files[i])]
        /\ \A p \in Range(calls) :
              Cardinality({i \in 1..Len(log) : log[i].subject = p}) = 1
        /\ exitCode # 1
        /\ pc \in {"batched", "scheduled", "exited"}

\* C5 witness: the first file's conversion failed and the second file was
\* converted all the same.
C5_Witness ==
    /\ scanned
    /\ Len(calls) >= 2
    /\ \E i, j \in 1..Len(log) :
          /\ i < j
          /\ log[i] = Entry("ERROR", "convert_error", calls[1])
          /\ log[j] = Entry("INFO", "converted", calls[2])

\* C6: an invocation whose scheduling command exited unsuccessfully has an
\* error record about the scheduling failure in its log, and the files its
\* batch wrote are still there.
C6_SchedulingFailureLogged ==
    (pc \in {"scheduled", "exited"} /\ schedOutcome = "fail") =>
        /\ \E i \in 1..Len(log) :
              log[i].level = "ERROR" /\ log[i].event = "schedule_failed"
        /\ Range(produced) \subseteq fs

\* C7: an invocation that passed parse_arguments and has exited logged
\* "Script finished." last and exited with status 0.
C7_AlwaysFinishesExitZero ==
    (pc = "exited" /\ args.ok) =>
        /\ exitCode = 0
        /\ log[Len(log)].event = "finished"

\* C8: a configuration that passed parse_arguments has a frequency >= 1 and
\* a unit among minute, hour and day.
C8_ScheduleSpecValidated ==
    args.ok => (args.frequency >= 1 /\ args.unit \in {"minute", "hour", "day"})

\* C9: on a platform that is neither Windows nor Linux the scheduling step
\* logs the unsupported-OS warning, runs no scheduling command, changes
\* neither scheduler store and leaves the batch's results as they are.
C9_UnsupportedPlatformSchedulesNothing ==
    [][(pc = "batched" /\ platform \notin {"Windows", "Linux"}) =>
          /\ log' = Append(log, Entry("WARNING", "unsupported_os", ""))
          /\ issued' = 0
          /\ schedOutcome' = "none"
          /\ winTasks' = winTasks
          /\ crontab' = crontab
          /\ fs' = fs
          /\ produced' = produced
          /\ calls' = calls]_vars

\* C9 witness: on Darwin, after a batch that wrote a file, the scheduling
\* step has reported the unsupported OS.
C9_Witness ==
    /\ platform = "Darwin"
    /\ pc = "scheduled"
    /\ produced # <<>>
    /\ log[Len(log)].event = "unsupported_os"

\* C10: the line a successful Linux install appends is */N * * * * for unit
\* minute, 0 */N * * * for unit hour and 0 0 */N * * for unit day, N being
\* the frequency as given, followed by the command.
C10_CronLineFields ==
    (Installed /\ platform = "Linux") =>
        LET line == crontab[Len(crontab)]
            every == "*/" \o IntText(args.frequency)
        IN  /\ args.unit = "minute" =>
                  SubSeq(line, 1, 5) = <<every, "*", "*", "*", "*">>
            /\ args.unit = "hour" =>
                  SubSeq(line, 1, 5) = <<"0", every, "*", "*", "*">>
            /\ args.unit = "day" =>
                  SubSeq(line, 1, 5) = <<"0", "0", every, "*", "*">>
            /\ SubSeq(line, 6, Len(line)) =
                  <<"python3", ScriptPath, "--dir", args.dir, "--ext", args.ext,
                    "--format", args.format, "--scheduled">>

\* C10 witness: an every-5-hours line has been appended.
C10_Witness ==
    /\ Installed
    /\ platform = "Linux"
    /\ args.unit = "hour"
    /\ args.frequency = 5
    /\ SubSeq(crontab[Len(crontab)], 1, 5) = <<"0", "*/5", "*", "*", "*">>

====
